---- MODULE Spec2Model ----
(***************************************************************************)
(* A model of pipeline_to_GC.py: the CloudETLPipeline class (extract,      *)
(* transform, load to Cloud Storage, load to BigQuery, analytics) and the  *)
(* cloud state its runs share.  Several invocations of the script may      *)
(* overlap; each one is a "run" below.                                     *)
(***************************************************************************)
EXTENDS Integers, Sequences, FiniteSets, TLC

\* ------------------------------------------------------------------ bounds
NRuns == 2
MaxRows == 2
MaxClock == 2
\* The length of a calendar day in seconds, scaled down so that midnight is reached.
SecondsPerDay == 2

Runs == 1..NRuns

VARIABLES
    run,            \* run[r]: the state of invocation r (a CloudETLPipeline and its run_pipeline frame)
    buckets,        \* Cloud Storage: the names of the buckets that exist
    blobs,          \* Cloud Storage: the blobs that exist, each [bucket, name, content]
    datasetExists,  \* BigQuery: whether dataset pedro_etl_demo exists
    table,          \* BigQuery: the rows of pedro_etl_demo.sales_data
    clock,          \* the wall clock datetime.now() reads, in seconds since a midnight
    uploads,        \* history: the completed uploads, oldest first
    loads,          \* history: the runs whose load job completed, oldest first
    tpc, tin, tout  \* transform_data applied on its own: position, argument, result

vars == <<run, buckets, blobs, datasetExists, table, clock, uploads, loads, tpc, tin, tout>>

Range(s) == {s[i] : i \in DOMAIN s}
Last(s) == s[Len(s)]
IsPrefix(s, t) == Len(s) <= Len(t) /\ SubSeq(t, 1, Len(s)) = s

\* ------------------------------------------------------------------ cells
\* A cell of a DataFrame: a missing value, a string (a sequence of characters) or
\* an int64 (eight base-256 limbs, least significant first, two's complement).
NaN == [t |-> "nan"]
Str(chars) == [t |-> "str", s |-> chars]
I64(limbs) == [t |-> "int", limbs |-> limbs]
IsNull(c) == c.t = "nan"

LimbBase == 2 ^ 8
NLimbs == 8

RECURSIVE NatLimbs(_, _)
NatLimbs(n, k) == IF k = 0 THEN <<>> ELSE <<n % LimbBase>> \o NatLimbs(n \div LimbBase, k - 1)

RECURSIVE LimbsNat(_)
\* The value of a limb sequence, for values TLC's integers can hold.
LimbsNat(l) == IF l = <<>> THEN 0 ELSE l[1] + LimbBase * LimbsNat(Tail(l))

Limb(a, i) == IF i \in DOMAIN a THEN a[i] ELSE 0

RECURSIVE ColSum(_, _, _, _)
\* Column k of the schoolbook product: the sum of a[i] * b[k+1-i].
ColSum(a, b, k, i) == IF i > k THEN 0 ELSE Limb(a, i) * Limb(b, k + 1 - i) + ColSum(a, b, k, i + 1)

RECURSIVE MulLimbs(_, _, _, _, _)
\* Limbs k..n of a * b, given the carry into column k.
MulLimbs(a, b, k, n, carry) ==
    IF k > n THEN <<>>
    ELSE LET s == ColSum(a, b, k, 1) + carry
         IN  <<s % LimbBase>> \o MulLimbs(a, b, k + 1, n, s \div LimbBase)

\* numpy's int64 multiply: the low 64 bits of the product, silently.
Mul64(a, b) == MulLimbs(a, b, 1, NLimbs, 0)

\* ------------------------------------------------------------------ dates
Digits == <<"0", "1", "2", "3", "4", "5", "6", "7", "8", "9">>
IsDigit(c) == \E i \in 1..10 : Digits[i] = c
DigitVal(c) == (CHOOSE i \in 1..10 : Digits[i] = c) - 1
DigitChar(n) == Digits[n + 1]

RECURSIVE DigitsNat(_)
DigitsNat(s) == IF s = <<>> THEN 0 ELSE 10 * DigitsNat(SubSeq(s, 1, Len(s) - 1)) + DigitVal(Last(s))

RECURSIVE ZeroPad(_, _)
\* n in decimal, zero padded to width w.
ZeroPad(n, w) == IF w = 0 THEN <<>> ELSE Append(ZeroPad(n \div 10, w - 1), DigitChar(n % 10))

IsLeap(y) == (y % 4 = 0 /\ y % 100 # 0) \/ y % 400 = 0
DaysIn(y, m) ==
    IF m = 2 THEN (IF IsLeap(y) THEN 29 ELSE 28)
    ELSE IF m \in {4, 6, 9, 11} THEN 30 ELSE 31

\* pd.to_datetime on one ISO "YYYY-MM-DD" string: the calendar date, or a failure.
ParseDate(s) ==
    IF /\ Len(s) = 10
       /\ s[5] = "-" /\ s[8] = "-"
       /\ \A i \in {1, 2, 3, 4, 6, 7, 9, 10} : IsDigit(s[i])
    THEN LET y == DigitsNat(SubSeq(s, 1, 4))
             m == DigitsNat(SubSeq(s, 6, 7))
             d == DigitsNat(SubSeq(s, 9, 10))
         IN  IF m \in 1..12 /\ d >= 1 /\ d <= DaysIn(y, m)
             THEN [ok |-> TRUE, y |-> y, m |-> m, d |-> d]
             ELSE [ok |-> FALSE]
    ELSE [ok |-> FALSE]

\* strftime('%Y-%m').
StrftimeYm(dt) == ZeroPad(dt.y, 4) \o <<"-">> \o ZeroPad(dt.m, 2)

\* One cell of pd.to_datetime(df['date']).dt.strftime('%Y-%m'): a missing date is
\* NaT and formats to a missing value.
MonthCell(c) ==
    IF IsNull(c) THEN NaN ELSE Str(StrftimeYm(ParseDate(c.s)))

DateCellParses(c) == IsNull(c) \/ (c.t = "str" /\ ParseDate(c.s).ok)

\* ------------------------------------------------------------------ tables
\* A DataFrame: its column names in order, and its rows, each a function from
\* column name to cell.
HasCol(df, name) == name \in Range(df.cols)

\* df[name] = vals: an existing column is overwritten in place, a new one is
\* appended as the last column.
SetCol(df, name, vals) ==
    [cols |-> IF HasCol(df, name) THEN df.cols ELSE Append(df.cols, name),
     rows |-> [i \in 1..Len(df.rows) |->
                 [c \in Range(df.cols) \cup {name} |->
                     IF c = name THEN vals[i] ELSE df.rows[i][c]]]]

RECURSIVE SumSeq(_)
SumSeq(s) == IF s = <<>> THEN 0 ELSE s[1] + SumSeq(Tail(s))

\* df.isnull().sum().sum(): the missing cells of the whole frame.
NullCount(df) ==
    SumSeq([i \in 1..Len(df.rows) |-> Cardinality({c \in Range(df.cols) : IsNull(df.rows[i][c])})])

\* total_value computed from the wrong pair of columns.
TotalValueColumnSquared(df) ==
    [i \in 1..Len(df.rows) |->
        I64(Mul64(df.rows[i]["sales_amount"].limbs, df.rows[i]["sales_amount"].limbs))]

\* df['sales_amount'] * df['quantity'], row by row.
TotalValueColumn(df) ==
    [i \in 1..Len(df.rows) |->
        I64(Mul64(df.rows[i]["sales_amount"].limbs, df.rows[i]["quantity"].limbs))]

\* transform_data: the frame it returns, or the exception it raises.
TransformData(df) ==
    IF ~HasCol(df, "date") THEN [ok |-> FALSE, err |-> "KeyError"]
    ELSE IF \E i \in 1..Len(df.rows) : ~DateCellParses(df.rows[i]["date"])
    THEN [ok |-> FALSE, err |-> "ValueError"]
    ELSE LET d1 == SetCol(df, "month", [i \in 1..Len(df.rows) |-> MonthCell(df.rows[i]["date"])])
         IN  IF ~HasCol(d1, "sales_amount") \/ ~HasCol(d1, "quantity")
             THEN [ok |-> FALSE, err |-> "KeyError"]
             ELSE LET d2 == SetCol(d1, "total_value", TotalValueColumn(d1))
                  IN  [ok |-> TRUE, df |-> d2,
                       warned |-> NullCount(d2) > 0,
                       total_transactions |-> Len(d2.rows)]

\* ------------------------------------------------------------------ to_csv
RECURSIVE DecimalDigits(_)
DecimalDigits(n) == IF n < 10 THEN <<DigitChar(n)>> ELSE Append(DecimalDigits(n \div 10), DigitChar(n % 10))

\* One field of to_csv: a missing value is the empty field, an integer its decimal digits.
CsvField(c) ==
    CASE c.t = "nan" -> <<>>
      [] c.t = "str" -> c.s
      [] c.t = "int" -> DecimalDigits(LimbsNat(c.limbs))

\* df.to_csv(index=False): the header line, then one line per row in row order,
\* the fields in column order, no index column.
ToCsv(df) ==
    <<df.cols>> \o [i \in 1..Len(df.rows) |-> [j \in 1..Len(df.cols) |-> CsvField(df.rows[i][df.cols[j]])]]

\* ------------------------------------------------------------------ inputs
Chars(a, b, c, d, e, f, g, h, i, j) == Str(<<a, b, c, d, e, f, g, h, i, j>>)
Date20240115 == Chars("2", "0", "2", "4", "-", "0", "1", "-", "1", "5")
Date20231231 == Chars("2", "0", "2", "3", "-", "1", "2", "-", "3", "1")
DateMonth13 == Chars("2", "0", "2", "4", "-", "1", "3", "-", "0", "1")
Small(n) == I64(NatLimbs(n, NLimbs))
TwoTo32 == I64(<<0, 0, 0, 0, 1, 0, 0, 0>>)

BaseCols == <<"date", "product", "customer_region", "sales_amount", "quantity">>
DateVals == {Date20240115, Date20231231, DateMonth13, NaN}
ProductVals == {Str(<<"X">>), NaN}
SalesVals == {Small(100), TwoTo32}
QuantityVals == {Small(2), TwoTo32}
ExtraCols == {"", "month", "total_value"}

BaseRows ==
    {[c \in Range(BaseCols) |->
        CASE c = "date" -> d [] c = "product" -> p [] c = "customer_region" -> Str(<<"E">>)
          [] c = "sales_amount" -> s [] c = "quantity" -> q]
     : d \in DateVals, p \in ProductVals, s \in SalesVals, q \in QuantityVals}

WithExtra(cols, rows, x) ==
    IF x = "" THEN [cols |-> cols, rows |-> rows]
    ELSE SetCol([cols |-> cols, rows |-> rows], x, [i \in 1..Len(rows) |-> Str(<<"o">>)])

\* The frames transform_data is applied to on its own.
InputTables ==
    {WithExtra(BaseCols, rows, x) :
        rows \in UNION {[1..n -> BaseRows] : n \in 0..MaxRows}, x \in ExtraCols}

Row(d, p, s, q) ==
    [c \in Range(BaseCols) |->
        CASE c = "date" -> d [] c = "product" -> p [] c = "customer_region" -> Str(<<"E">>)
          [] c = "sales_amount" -> Small(s) [] c = "quantity" -> Small(q)]

\* The source files a run may find at its path.
FileOne == [cols |-> BaseCols, rows |-> <<Row(Date20240115, Str(<<"X">>), 100, 2)>>]
FileTwo == [cols |-> BaseCols,
            rows |-> <<Row(Date20231231, NaN, 7, 3), Row(Date20240115, Str(<<"X">>), 100, 2)>>]
FileNoDate ==
    LET cols == <<"product", "customer_region", "sales_amount", "quantity">>
    IN  [cols |-> cols, rows |-> <<[c \in Range(cols) |-> Row(NaN, Str(<<"X">>), 100, 2)[c]]>>]
SourceFiles == {FileOne, FileTwo, FileNoDate}

\* ------------------------------------------------------------------ transform_data on its own
NoResult == [ok |-> FALSE, err |-> "none"]

TransformReturns ==
    /\ tpc = "call"
    /\ TransformData(tin).ok
    /\ tout' = TransformData(tin)
    /\ tpc' = "returned"
    /\ UNCHANGED <<run, buckets, blobs, datasetExists, table, clock, uploads, loads, tin>>

TransformRaises ==
    /\ tpc = "call"
    /\ ~TransformData(tin).ok
    /\ tout' = TransformData(tin)
    /\ tpc' = "raised"
    /\ UNCHANGED <<run, buckets, blobs, datasetExists, table, clock, uploads, loads, tin>>

\* ------------------------------------------------------------------ the pipeline
Stages == <<"extract_data", "transform_data", "load_to_storage", "load_to_bigquery", "run_analytics">>
Queries == <<"Top Performing Products", "Regional Sales Performance">>
QueryOutcomes == {"ok", "submit_error", "result_error", "row_error"}

\* datetime.now(): the calendar day and the second of that day.
Now == <<clock \div SecondsPerDay, clock % SecondsPerDay>>
\* f"pedro-etl-{now:%Y%m%d}": one name per calendar day.
BucketName(ts) == [prefix |-> "pedro-etl-", date |-> ts[1]]
\* The blob name formatted to the minute, '%Y%m%d_%H%M'.
BlobNameToMinute(ts) == [prefix |-> "sales_data_", date |-> ts[1], time |-> ts[2] \div 60]

\* f"sales_data_{now:%Y%m%d_%H%M%S}.csv": one name per second.
BlobName(ts) == [prefix |-> "sales_data_", date |-> ts[1], time |-> ts[2]]

NoDf == [cols |-> <<>>, rows |-> <<>>]
NoName == [prefix |-> "", date |-> -1]
NewRun ==
    [pc |-> "new", df |-> NoDf, bucket_name |-> NoName, startAt |-> <<>>,
     started |-> <<>>, completed |-> <<>>, failedAt |-> "none", cause |-> "none",
     result |-> "none", createdBucket |-> FALSE, nameAt |-> <<>>, blob_name |-> NoName,
     getOutcome |-> "none", qi |-> 1, qlog |-> <<>>]

\* run_pipeline with the two loaders called in the other order.
StageAfterSwapped(stage) ==
    CASE stage = "extract_data" -> "transform_data"
      [] stage = "transform_data" -> "load_to_bigquery"
      [] stage = "load_to_bigquery" -> "load_to_storage"
      [] stage = "load_to_storage" -> "run_analytics"
      [] stage = "run_analytics" -> "return"

\* run_pipeline's body: the stage called after `stage` returns; after the last, the
\* success return.
StageAfter(stage) ==
    CASE stage = "extract_data" -> "transform_data"
      [] stage = "transform_data" -> "load_to_storage"
      [] stage = "load_to_storage" -> "load_to_bigquery"
      [] stage = "load_to_bigquery" -> "run_analytics"
      [] stage = "run_analytics" -> "return"

\* Where a stage's code begins.
FirstPc(stage) ==
    CASE stage = "extract_data" -> "extract"
      [] stage = "transform_data" -> "transform"
      [] stage = "load_to_storage" -> "st_exists"
      [] stage = "load_to_bigquery" -> "bq_get"
      [] stage = "run_analytics" -> "query"
      [] stage = "return" -> "return"

\* load_to_storage's handler without its raise.
ReraisesNotStorage(stage) == stage \in {"extract_data", "transform_data", "load_to_bigquery"}
\* load_to_bigquery's handler without its raise.
ReraisesNotBigQuery(stage) == stage \in {"extract_data", "transform_data", "load_to_storage"}

\* Whether an exception raised inside `stage` leaves the stage: extract_data and
\* transform_data catch nothing, the two loaders print and re-raise.
Reraises(stage) == stage \in {"extract_data", "transform_data", "load_to_storage", "load_to_bigquery"}

\* run_pipeline's return value at its two exits.
ReturnValue(pcv) == IF pcv = "return" THEN "True" ELSE "False"

Begin(rr, stage) == [rr EXCEPT !.started = Append(@, stage)]
Finish(rr, stage) == [rr EXCEPT !.completed = Append(@, stage), !.pc = FirstPc(StageAfter(stage))]
Fail(rr, stage, cause) ==
    IF Reraises(stage)
    THEN [rr EXCEPT !.pc = "except", !.failedAt = stage, !.cause = cause]
    ELSE Finish([rr EXCEPT !.failedAt = stage, !.cause = cause], stage)

\* load_to_storage once the bucket is in hand: the blob name is read off the clock.
Named(rr) == [rr EXCEPT !.nameAt = Now, !.blob_name = BlobName(Now), !.pc = "st_upload"]

\* to_csv with its default index=True: a leading index column.
UploadContentWithIndex(df) ==
    <<<<"">> \o df.cols>> \o
    [i \in 1..Len(df.rows) |->
        <<DecimalDigits(i - 1)>> \o [j \in 1..Len(df.cols) |-> CsvField(df.rows[i][df.cols[j]])]]

\* csv_data, the text upload_from_string sends: the frame as CSV.
UploadContent(df) == ToCsv(df)

\* A load job with write_disposition WRITE_APPEND.
LoadJobAppend(old, new) == old \o new

\* A load job with write_disposition WRITE_TRUNCATE: the table's rows afterwards.
LoadJob(old, new) == new

\* run_analytics with the try around the whole loop: a failed query ends the stage
\* and reaches run_pipeline's handler.
NextAfterQueryRaising(rr, i, outcome) ==
    IF outcome # "ok" THEN [rr EXCEPT !.pc = "except", !.failedAt = "run_analytics", !.cause = outcome]
    ELSE IF i < Len(Queries) THEN [rr EXCEPT !.qi = i + 1] ELSE Finish(rr, "run_analytics")

\* run_analytics after query i ended with `outcome`: every exception is caught
\* inside the loop, which goes on to the next query.
NextAfterQuery(rr, i, outcome) ==
    IF i < Len(Queries) THEN [rr EXCEPT !.qi = i + 1] ELSE Finish(rr, "run_analytics")

CloudUnchanged == UNCHANGED <<buckets, blobs, datasetExists, table, uploads, loads>>
Rest == UNCHANGED <<clock, tpc, tin, tout>>

\* main(): the constructor reads the date for the bucket name, then run_pipeline starts.
\* Runs are numbered in the order they start.
Main(r) ==
    /\ run[r].pc = "new"
    /\ \A q \in Runs : q < r => run[q].pc # "new"
    /\ run' = [run EXCEPT ![r] = [@ EXCEPT !.pc = "extract", !.bucket_name = BucketName(Now),
                                             !.startAt = Now]]
    /\ CloudUnchanged /\ Rest

ExtractOk(r) ==
    /\ run[r].pc = "extract"
    /\ \E f \in SourceFiles :
         run' = [run EXCEPT ![r] = Finish([Begin(@, "extract_data") EXCEPT !.df = f], "extract_data")]
    /\ CloudUnchanged /\ Rest

ExtractError(r) ==
    /\ run[r].pc = "extract"
    /\ run' = [run EXCEPT ![r] = Fail(Begin(@, "extract_data"), "extract_data", "ParserError")]
    /\ CloudUnchanged /\ Rest

Transform(r) ==
    /\ run[r].pc = "transform"
    /\ LET t == TransformData(run[r].df)
           b == Begin(run[r], "transform_data")
       IN  run' = [run EXCEPT ![r] =
                     IF t.ok THEN Finish([b EXCEPT !.df = t.df], "transform_data")
                     ELSE Fail(b, "transform_data", t.err)]
    /\ CloudUnchanged /\ Rest

\* bucket.exists() answers.
BucketExists(r) ==
    /\ run[r].pc = "st_exists"
    /\ LET b == Begin(run[r], "load_to_storage")
       IN  run' = [run EXCEPT ![r] =
                     IF run[r].bucket_name \in buckets THEN Named(b)
                     ELSE [b EXCEPT !.pc = "st_create"]]
    /\ CloudUnchanged /\ Rest

BucketExistsError(r) ==
    /\ run[r].pc = "st_exists"
    /\ run' = [run EXCEPT ![r] = Fail(Begin(@, "load_to_storage"), "load_to_storage", "exists_error")]
    /\ CloudUnchanged /\ Rest

\* create_bucket answers: a new bucket, or 409 Conflict for a name that is taken.
CreateBucket(r) ==
    /\ run[r].pc = "st_create"
    /\ IF run[r].bucket_name \in buckets
       THEN /\ run' = [run EXCEPT ![r] = Fail(@, "load_to_storage", "Conflict")]
            /\ UNCHANGED buckets
       ELSE /\ buckets' = buckets \cup {run[r].bucket_name}
            /\ run' = [run EXCEPT ![r] = Named([@ EXCEPT !.createdBucket = TRUE])]
    /\ UNCHANGED <<blobs, datasetExists, table, uploads, loads>> /\ Rest

CreateBucketError(r) ==
    /\ run[r].pc = "st_create"
    /\ run' = [run EXCEPT ![r] = Fail(@, "load_to_storage", "create_error")]
    /\ CloudUnchanged /\ Rest

\* blob.upload_from_string answers: the blob of that name now holds the text.
Upload(r) ==
    /\ run[r].pc = "st_upload"
    /\ blobs' = {b \in blobs : ~(b.bucket = run[r].bucket_name /\ b.name = run[r].blob_name)}
                \cup {[bucket |-> run[r].bucket_name, name |-> run[r].blob_name,
                       content |-> UploadContent(run[r].df)]}
    /\ uploads' = Append(uploads, [bucket |-> run[r].bucket_name, name |-> run[r].blob_name, by |-> r])
    /\ run' = [run EXCEPT ![r] = Finish(@, "load_to_storage")]
    /\ UNCHANGED <<buckets, datasetExists, table, loads>> /\ Rest

UploadError(r) ==
    /\ run[r].pc = "st_upload"
    /\ run' = [run EXCEPT ![r] = Fail(@, "load_to_storage", "upload_error")]
    /\ CloudUnchanged /\ Rest

\* get_dataset answers: the dataset, or NotFound.
GetDataset(r) ==
    /\ run[r].pc = "bq_get"
    /\ LET b == Begin(run[r], "load_to_bigquery")
       IN  run' = [run EXCEPT ![r] =
                     IF datasetExists THEN [b EXCEPT !.getOutcome = "found", !.pc = "bq_load"]
                     ELSE [b EXCEPT !.getOutcome = "NotFound", !.pc = "bq_create"]]
    /\ CloudUnchanged /\ Rest

\* get_dataset raises anything else: the bare except takes the create branch too.
GetDatasetError(r) ==
    /\ run[r].pc = "bq_get"
    /\ run' = [run EXCEPT ![r] = [Begin(@, "load_to_bigquery") EXCEPT !.getOutcome = "error",
                                                                       !.pc = "bq_create"]]
    /\ CloudUnchanged /\ Rest

\* create_dataset answers: a new dataset, or 409 Conflict for one that exists.
CreateDataset(r) ==
    /\ run[r].pc = "bq_create"
    /\ IF datasetExists
       THEN /\ run' = [run EXCEPT ![r] = Fail(@, "load_to_bigquery", "Conflict")]
            /\ UNCHANGED datasetExists
       ELSE /\ datasetExists' = TRUE
            /\ run' = [run EXCEPT ![r] = [@ EXCEPT !.pc = "bq_load"]]
    /\ UNCHANGED <<buckets, blobs, table, uploads, loads>> /\ Rest

CreateDatasetError(r) ==
    /\ run[r].pc = "bq_create"
    /\ run' = [run EXCEPT ![r] = Fail(@, "load_to_bigquery", "create_error")]
    /\ CloudUnchanged /\ Rest

\* load_table_from_dataframe and job.result(): the job is done.
LoadTable(r) ==
    /\ run[r].pc = "bq_load"
    /\ table' = LoadJob(table, run[r].df.rows)
    /\ loads' = Append(loads, r)
    /\ run' = [run EXCEPT ![r] = Finish(@, "load_to_bigquery")]
    /\ UNCHANGED <<buckets, blobs, datasetExists, uploads>> /\ Rest

LoadTableError(r) ==
    /\ run[r].pc = "bq_load"
    /\ run' = [run EXCEPT ![r] = Fail(@, "load_to_bigquery", "load_error")]
    /\ CloudUnchanged /\ Rest

\* One pass of run_analytics' loop: the query is submitted, waited for and its rows
\* printed, or one of the three raises.
Query(r) ==
    /\ run[r].pc = "query"
    /\ \E outcome \in QueryOutcomes :
         LET i == run[r].qi
             b == IF i = 1 THEN Begin(run[r], "run_analytics") ELSE run[r]
         IN  run' = [run EXCEPT ![r] =
                       NextAfterQuery([b EXCEPT !.qlog = Append(@, [name |-> Queries[i], ok |-> outcome = "ok"])],
                                      i, outcome)]
    /\ CloudUnchanged /\ Rest

\* run_pipeline returns: its frame is gone; what the run did stays on record.
Returned(rr) ==
    [NewRun EXCEPT !.pc = "done", !.result = ReturnValue(rr.pc), !.bucket_name = rr.bucket_name,
                   !.df = rr.df, !.startAt = rr.startAt, !.nameAt = rr.nameAt,
                   !.blob_name = rr.blob_name,
                   !.started = rr.started, !.completed = rr.completed, !.failedAt = rr.failedAt]

Return(r) ==
    /\ run[r].pc \in {"return", "except"}
    /\ run' = [run EXCEPT ![r] = Returned(@)]
    /\ CloudUnchanged /\ Rest

\* The clock: a second passes. Time is counted from the start of the first run.
Tick ==
    /\ run[1].pc # "new"
    /\ clock < MaxClock
    /\ clock' = clock + 1
    /\ UNCHANGED <<run, buckets, blobs, datasetExists, table, uploads, loads, tpc, tin, tout>>

\* What an earlier day's runs may have left in the warehouse.
OldRows ==
    TransformData([cols |-> BaseCols,
                   rows |-> <<Row(Date20231231, Str(<<"X">>), 1, 1), Row(Date20231231, Str(<<"X">>), 2, 1),
                              Row(Date20231231, Str(<<"X">>), 3, 1)>>]).df.rows

Init ==
    /\ run = [r \in Runs |-> NewRun]
    /\ buckets = {}
    /\ blobs = {}
    /\ datasetExists \in BOOLEAN
    /\ table = (IF datasetExists THEN OldRows ELSE <<>>)
    /\ clock = 0
    /\ uploads = <<>> /\ loads = <<>>
    /\ tpc = "off" /\ tin = NoDf /\ tout = NoResult

Next ==
    \/ \E r \in Runs :
         \/ Main(r)
         \/ ExtractOk(r) \/ ExtractError(r)
         \/ Transform(r)
         \/ BucketExists(r) \/ BucketExistsError(r)
         \/ CreateBucket(r) \/ CreateBucketError(r)
         \/ Upload(r) \/ UploadError(r)
         \/ GetDataset(r) \/ GetDatasetError(r)
         \/ CreateDataset(r) \/ CreateDatasetError(r)
         \/ LoadTable(r) \/ LoadTableError(r)
         \/ Query(r)
         \/ Return(r)
    \/ Tick

Spec == Init /\ [][Next]_vars

InitT ==
    /\ run = [r \in Runs |-> NewRun]
    /\ buckets = {} /\ blobs = {} /\ datasetExists = FALSE /\ table = <<>>
    /\ clock = 0
    /\ uploads = <<>> /\ loads = <<>>
    /\ tpc = "call" /\ tin \in InputTables /\ tout = NoResult

NextT == TransformReturns \/ TransformRaises

SpecT == InitT /\ [][NextT]_vars

\* ------------------------------------------------------------------ properties
Done(r) == run[r].pc = "done"
Succeeded(r) == Done(r) /\ run[r].result = "True"
FatalStages == {"extract_data", "transform_data", "load_to_storage", "load_to_bigquery"}
Uploader(r) == \E i \in DOMAIN uploads : uploads[i].by = r
Loader(r) == \E i \in DOMAIN loads : loads[i] = r
BlobAt(bkt, name) == CHOOSE b \in blobs : b.bucket = bkt /\ b.name = name
HasBlob(bkt, name) == \E b \in blobs : b.bucket = bkt /\ b.name = name
\* The position in `uploads` of the most recent upload into bucket bkt, 0 if none.
LastUploadTo(bkt) ==
    LET at == {i \in DOMAIN uploads : uploads[i].bucket = bkt}
    IN  IF at = {} THEN 0 ELSE CHOOSE i \in at : \A j \in at : j <= i

\* C1: in every run the stages start in the order extract_data, transform_data,
\* load_to_storage, load_to_bigquery, run_analytics, each at most once, and a stage
\* has started only if every stage before it has completed.
StagesInOrder ==
    \A r \in Runs :
        /\ IsPrefix(run[r].started, Stages)
        /\ IsPrefix(run[r].completed, run[r].started)
        /\ Len(run[r].started) <= Len(run[r].completed) + 1

AllStagesRan ==
    \E r \in Runs : Succeeded(r) /\ run[r].started = Stages /\ run[r].completed = Stages

\* C2: once one of the first four stages has failed, the run is in run_pipeline's
\* handler or has returned; the failed stage is the last one started, no stage was
\* started twice, the run never returns True and, returned, it has returned False; a
\* run that failed in transform_data has uploaded and loaded nothing.
FailureHalts ==
    \A r \in Runs :
        run[r].failedAt \in FatalStages =>
            /\ run[r].pc \in {"except", "done"}
            /\ IsPrefix(run[r].started, Stages)
            /\ Last(run[r].started) = run[r].failedAt
            /\ run[r].result # "True"
            /\ (Done(r) => run[r].result = "False")
            /\ (run[r].failedAt \in {"extract_data", "transform_data"} => ~Uploader(r) /\ ~Loader(r))

MissingDateColumnFails ==
    \E r \in Runs :
        /\ Done(r) /\ run[r].result = "False"
        /\ run[r].failedAt = "transform_data"
        /\ run[r].df = FileNoDate

\* C3: every step of a run whose load_to_bigquery has failed (the failing step and
\* the return) leaves the buckets and the blobs exactly as they were, and the run
\* neither starts run_analytics nor runs a query.
NoRollbackNoReport ==
    [][\A r \in Runs :
          (run'[r].failedAt = "load_to_bigquery" /\ run'[r] # run[r]) =>
              /\ buckets' = buckets
              /\ blobs' = blobs
              /\ ~("run_analytics" \in Range(run'[r].started))
              /\ run'[r].qlog = <<>>
              /\ run'[r].pc \in {"except", "done"}]_vars

WarehouseFailedAfterUpload ==
    \E r \in Runs :
        /\ run[r].pc = "except" /\ run[r].failedAt = "load_to_bigquery"
        /\ run[r].createdBucket /\ run[r].bucket_name \in buckets
        /\ HasBlob(run[r].bucket_name, run[r].blob_name)
        /\ BlobAt(run[r].bucket_name, run[r].blob_name).content = ToCsv(run[r].df)

\* C4: run_analytics attempts Query A then Query B whatever their outcomes: the
\* queries attempted so far are the first ones of the list, the stage ends only
\* with both attempted, no failure is recorded against run_analytics, and a run
\* that completed run_analytics returns True.
QueriesIsolated ==
    \A r \in Runs :
        /\ [i \in 1..Len(run[r].qlog) |-> run[r].qlog[i].name] = SubSeq(Queries, 1, Len(run[r].qlog))
        /\ (run[r].pc = "query" => Len(run[r].qlog) = run[r].qi - 1)
        /\ (run[r].pc = "return" => Len(run[r].qlog) = Len(Queries))
        /\ run[r].failedAt # "run_analytics"
        /\ ("run_analytics" \in Range(run[r].completed) =>
                run[r].pc \in {"return", "done"} /\ (Done(r) => run[r].result = "True"))

FirstQueryFailedSecondRan ==
    \E r \in Runs :
        /\ run[r].pc = "return"
        /\ ~run[r].qlog[1].ok
        /\ run[r].qlog[2].ok

\* C5: after any sequence of completed load jobs the table holds exactly the rows
\* of the frame of the most recent one.
TruncateAndLoad ==
    loads # <<>> =>
        /\ table = run[Last(loads)].df.rows
        /\ Len(table) = Len(run[Last(loads)].df.rows)

LoadedAThenB ==
    /\ Len(loads) = 2
    /\ Len(run[loads[1]].df.rows) # Len(run[loads[2]].df.rows)
    /\ datasetExists

\* C6 as stated: whenever a run returns True, the table has as many rows as that
\* run's frame and the most recent blob of the run's bucket is that frame's CSV.
SuccessLeavesOwnData ==
    [][\A r \in Runs :
          (run[r].pc = "return" /\ run'[r].pc = "done") =>
              /\ run'[r].result = "True"
              /\ Len(table') = Len(run[r].df.rows)
              /\ LastUploadTo(run[r].bucket_name) # 0
              /\ BlobAt(run[r].bucket_name, uploads[LastUploadTo(run[r].bucket_name)].name).content
                     = ToCsv(run[r].df)]_vars

\* C6 amended: after a run that returned True, if no other run's load job completed
\* after its own the table is its frame's rows, and if no other run uploaded into
\* its bucket after it the most recent blob of that bucket is its frame's CSV:
\* header line, then one line per row, no index column.
SuccessLeavesOwnDataIfLast ==
    \A r \in Runs :
        Succeeded(r) =>
            /\ (Last(loads) = r => table = run[r].df.rows /\ Len(table) = Len(run[r].df.rows))
            /\ LastUploadTo(run[r].bucket_name) # 0
            /\ LET u == uploads[LastUploadTo(run[r].bucket_name)]
               IN  u.by = r =>
                     /\ HasBlob(u.bucket, u.name)
                     /\ BlobAt(u.bucket, u.name).content = ToCsv(run[r].df)
                     /\ Len(BlobAt(u.bucket, u.name).content) = Len(run[r].df.rows) + 1
                     /\ BlobAt(u.bucket, u.name).content[1] = run[r].df.cols

LastRunSucceeded ==
    \E r \in Runs :
        /\ Succeeded(r)
        /\ Len(loads) = 2 /\ Last(loads) = r
        /\ Len(uploads) = 2 /\ Last(uploads).by = r /\ uploads[1].bucket = uploads[2].bucket
        /\ Len(run[loads[1]].df.rows) # Len(run[r].df.rows)

\* C7: no run is aborted by the race on the bucket: create_bucket never fails a
\* run because the other run created the bucket first.
BucketRaceBenign ==
    \A r \in Runs : ~(run[r].failedAt = "load_to_storage" /\ run[r].cause = "Conflict")

\* C8 as stated: two runs that start in different seconds upload under distinct
\* blob names.
StartSecondsSeparateBlobs ==
    \A r1, r2 \in Runs :
        (r1 # r2 /\ Uploader(r1) /\ Uploader(r2) /\ run[r1].startAt # run[r2].startAt) =>
            <<run[r1].bucket_name, run[r1].blob_name>> # <<run[r2].bucket_name, run[r2].blob_name>>

\* C8 amended: two runs that read the clock for their blob name in different
\* seconds have distinct blob names; and a blob is only ever overwritten by an
\* upload under its own name: every upload whose name no later upload into the same
\* bucket reused still has its blob, with the content it wrote, and the bucket
\* holds one blob per name uploaded.
NamingSecondsSeparateBlobs ==
    /\ \A r1, r2 \in Runs :
          (r1 # r2 /\ run[r1].nameAt # <<>> /\ run[r2].nameAt # <<>> /\ run[r1].nameAt # run[r2].nameAt) =>
              run[r1].blob_name # run[r2].blob_name
    /\ \A i \in DOMAIN uploads :
          (\A j \in DOMAIN uploads : j > i => <<uploads[j].bucket, uploads[j].name>> # <<uploads[i].bucket, uploads[i].name>>) =>
              /\ HasBlob(uploads[i].bucket, uploads[i].name)
              /\ BlobAt(uploads[i].bucket, uploads[i].name).content = ToCsv(run[uploads[i].by].df)
    /\ Cardinality(blobs) = Cardinality({<<uploads[i].bucket, uploads[i].name>> : i \in DOMAIN uploads})

TwoBlobsSideBySide ==
    \E r1, r2 \in Runs :
        /\ r1 # r2 /\ Uploader(r1) /\ Uploader(r2)
        /\ run[r1].bucket_name = run[r2].bucket_name
        /\ run[r1].nameAt # run[r2].nameAt
        /\ Cardinality(blobs) = 2

\* C10: a create_dataset call is issued only after get_dataset reported NotFound.
CreateOnlyWhenNotFound ==
    \A r \in Runs : run[r].pc = "bq_create" => run[r].getOutcome = "NotFound"

\* ------------------------------------------------------------------ properties of transform_data
\* The product of two non-negative integers in full, sixteen limbs.
ExactProduct(a, b) == MulLimbs(a, b, 1, 2 * NLimbs, 0)
\* Whether a non-negative sixteen-limb value is an int64.
Fits64(p) == (\A k \in (NLimbs + 1)..(2 * NLimbs) : p[k] = 0) /\ p[NLimbs] < LimbBase \div 2
Widen(l) == l \o [k \in 1..NLimbs |-> 0]
IsByte(l) == \A k \in 2..NLimbs : l[k] = 0

AllDatesParse(df) == \A i \in 1..Len(df.rows) : DateCellParses(df.rows[i]["date"])
AllDatesPresent(df) == \A i \in 1..Len(df.rows) : ~IsNull(df.rows[i]["date"])
NoClash(df) == ~HasCol(df, "month") /\ ~HasCol(df, "total_value")
ProductFits(df, i) == Fits64(ExactProduct(df.rows[i]["sales_amount"].limbs, df.rows[i]["quantity"].limbs))

TotalValueExact(i) ==
    /\ Widen(tout.df.rows[i]["total_value"].limbs)
           = ExactProduct(tin.rows[i]["sales_amount"].limbs, tin.rows[i]["quantity"].limbs)
    /\ (IsByte(tin.rows[i]["sales_amount"].limbs) /\ IsByte(tin.rows[i]["quantity"].limbs) =>
            LimbsNat(tout.df.rows[i]["total_value"].limbs)
                = LimbsNat(tin.rows[i]["sales_amount"].limbs) * LimbsNat(tin.rows[i]["quantity"].limbs))

MonthIsYearMonth(i) ==
    IF IsNull(tin.rows[i]["date"]) THEN IsNull(tout.df.rows[i]["month"])
    ELSE tout.df.rows[i]["month"] = Str(SubSeq(tin.rows[i]["date"].s, 1, 7))

OriginalKept ==
    /\ tout.df.cols = tin.cols \o <<"month", "total_value">>
    /\ Len(tout.df.rows) = Len(tin.rows)
    /\ \A i \in 1..Len(tin.rows) :
          /\ DOMAIN tout.df.rows[i] = Range(tin.cols) \cup {"month", "total_value"}
          /\ \A c \in Range(tin.cols) : tout.df.rows[i][c] = tin.rows[i][c]

WarnsOnly == tout.warned = (\E i \in 1..Len(tout.df.rows) : \E c \in Range(tout.df.cols) : IsNull(tout.df.rows[i][c]))

\* C9 as stated: for every frame with integer sales_amount and quantity and dates
\* that parse, transform_data returns; the result has the same rows in the same
\* order, the original columns unchanged and exactly month and total_value added;
\* total_value is sales_amount * quantity and month the year-month of date in
\* every row; missing values only set the warning.
TransformAddsTwoColumns ==
    (tpc # "call" /\ AllDatesParse(tin) /\ AllDatesPresent(tin)) =>
        /\ tpc = "returned"
        /\ OriginalKept
        /\ \A i \in 1..Len(tin.rows) : TotalValueExact(i) /\ MonthIsYearMonth(i)
        /\ WarnsOnly

\* C9 amended: the same, for frames that have no column named month or total_value
\* already, with total_value equal to sales_amount * quantity in the rows where
\* that product fits in 64 bits.
TransformAddsTwoColumnsIfNew ==
    (tpc # "call" /\ AllDatesParse(tin)) =>
        /\ tpc = "returned"
        /\ WarnsOnly
        /\ NoClash(tin) =>
              /\ OriginalKept
              /\ \A i \in 1..Len(tin.rows) :
                    /\ MonthIsYearMonth(i)
                    /\ ProductFits(tin, i) => TotalValueExact(i)

TransformedWithWarning ==
    /\ tpc = "returned"
    /\ NoClash(tin)
    /\ Len(tin.rows) = 2
    /\ tout.warned
    /\ \A i \in 1..2 : ProductFits(tin, i) /\ ~IsNull(tin.rows[i]["date"])
    /\ tin.rows[1]["date"] # tin.rows[2]["date"]

====
